---- MODULE Spec2Model ----
(***************************************************************************)
(* A model of gemini-safe-command-extension (src/src/index.ts): the        *)
(* tokenizer parseArgs, the whitelist validator validateCommand with the   *)
(* rule sets it reads (compiled-in defaults or a configuration file run    *)
(* through parseRegex), the process runner spawnAsync and the              *)
(* run_safe_command handler that chains them.                              *)
(*                                                                         *)
(* Strings are TLA+ strings; a character is a string of length one.        *)
(* JavaScript's null / undefined is the value Null; an optional field of   *)
(* an object that is absent is absent from the record's DOMAIN.            *)
(***************************************************************************)
EXTENDS Integers, Sequences, FiniteSets, TLC

VARIABLES
    \* ---- parseArgs (index.ts 243-289), one scan in progress
    commandStr,      \* the parameter commandStr
    i,               \* the loop index, 0-based as in the source
    args,            \* const args: string[]
    current,         \* let current
    quote,           \* let quote: string | null
    escape,          \* let escape
    parsePc,         \* "loop" while the for loop runs, then "returned" or "threw"
    parseOut,        \* what the call returned or threw
    \* ---- validateCommand (index.ts 291-331)
    allowedCommands, \* this.allowedCommands, RegExp objects with their lastIndex
    valCall,         \* the (baseCommand, args) of the call just made, if any
    valResult,       \* what that call returned
    \* ---- run_safe_command handler and spawnAsync (index.ts 197-240, 333-385)
    calls            \* per tool call: the handler's and the promise's state

tokVars == <<commandStr, i, args, current, quote, escape, parsePc, parseOut>>
valVars == <<allowedCommands, valCall, valResult>>
vars == <<commandStr, i, args, current, quote, escape, parsePc, parseOut,
          allowedCommands, valCall, valResult, calls>>

Null == "null"

\* parseArgs returning the tokens toks.
Returned(toks) == [threw |-> FALSE, args |-> toks]

(***************************************************************************)
(* Bounds of the model.                                                    *)
(***************************************************************************)
MaxCmdLen == 4       \* longest command string enumerated character by character

(***************************************************************************)
(* Strings.                                                                *)
(***************************************************************************)
CharAt(s, k) == SubSeq(s, k + 1, k + 1)          \* s[k], k 0-based

Substring(s, from, to) == SubSeq(s, from + 1, to)   \* s.substring(from, to)

RECURSIVE StringsUpTo(_, _)
StringsUpTo(chars, n) ==
    IF n = 0 THEN {""}
    ELSE LET shorter == StringsUpTo(chars, n - 1)
         IN  shorter \cup {s \o c : s \in {t \in shorter : Len(t) = n - 1}, c \in chars}

(***************************************************************************)
(* parseArgs.                                                              *)
(***************************************************************************)
Whitespace == {" ", "\t", "\n", "\r"}
QuoteChars == {"\"", "'"}
Backslash == "\\"

\* The state of the scan before the first character (index.ts 244-247).
ScanInit == [args |-> <<>>, current |-> "", quote |-> Null, escape |-> FALSE]

\* LoopBody with a closing quote also ending the token.
LoopBodyCloseEndsToken(st, char) ==
    IF st.escape
    THEN [st EXCEPT !.current = st.current \o char, !.escape = FALSE]
    ELSE IF char = Backslash
    THEN [st EXCEPT !.escape = TRUE]
    ELSE IF st.quote # Null
    THEN IF char = st.quote
         THEN [st EXCEPT !.quote = Null,
                         !.args = Append(st.args, st.current), !.current = ""]
         ELSE [st EXCEPT !.current = st.current \o char]
    ELSE IF char \in QuoteChars
    THEN [st EXCEPT !.quote = char]
    ELSE IF char \in Whitespace
    THEN IF st.current # ""
         THEN [st EXCEPT !.args = Append(st.args, st.current), !.current = ""]
         ELSE st
    ELSE [st EXCEPT !.current = st.current \o char]

\* LoopBody with the backslash an escape only outside single quotes, as in a
\* POSIX shell.
LoopBodyNoEscapeInSingleQuotes(st, char) ==
    IF st.escape
    THEN [st EXCEPT !.current = st.current \o char, !.escape = FALSE]
    ELSE IF char = Backslash /\ st.quote # "'"
    THEN [st EXCEPT !.escape = TRUE]
    ELSE IF st.quote # Null
    THEN IF char = st.quote
         THEN [st EXCEPT !.quote = Null]
         ELSE [st EXCEPT !.current = st.current \o char]
    ELSE IF char \in QuoteChars
    THEN [st EXCEPT !.quote = char]
    ELSE IF char \in Whitespace
    THEN IF st.current # ""
         THEN [st EXCEPT !.args = Append(st.args, st.current), !.current = ""]
         ELSE st
    ELSE [st EXCEPT !.current = st.current \o char]

\* LoopBody ending a token at every whitespace character, empty or not.
LoopBodyPushesEmpty(st, char) ==
    IF st.escape
    THEN [st EXCEPT !.current = st.current \o char, !.escape = FALSE]
    ELSE IF char = Backslash
    THEN [st EXCEPT !.escape = TRUE]
    ELSE IF st.quote # Null
    THEN IF char = st.quote
         THEN [st EXCEPT !.quote = Null]
         ELSE [st EXCEPT !.current = st.current \o char]
    ELSE IF char \in QuoteChars
    THEN [st EXCEPT !.quote = char]
    ELSE IF char \in Whitespace
    THEN [st EXCEPT !.args = Append(st.args, st.current), !.current = ""]
    ELSE [st EXCEPT !.current = st.current \o char]

\* One iteration of the for loop on character char (index.ts 250-280).
LoopBody(st, char) ==
    IF st.escape
    THEN [st EXCEPT !.current = st.current \o char, !.escape = FALSE]
    ELSE IF char = Backslash
    THEN [st EXCEPT !.escape = TRUE]
    ELSE IF st.quote # Null
    THEN IF char = st.quote
         THEN [st EXCEPT !.quote = Null]
         ELSE [st EXCEPT !.current = st.current \o char]
    ELSE IF char \in QuoteChars
    THEN [st EXCEPT !.quote = char]
    ELSE IF char \in Whitespace
    THEN IF st.current # ""
         THEN [st EXCEPT !.args = Append(st.args, st.current), !.current = ""]
         ELSE st
    ELSE [st EXCEPT !.current = st.current \o char]

\* AfterLoop keeping a dangling backslash as a character of the last token.
AfterLoopKeepsBackslash(st) ==
    IF st.quote # Null
    THEN [threw |-> TRUE,
          message |-> "Syntax error: Unclosed quote " \o st.quote]
    ELSE LET last == IF st.escape THEN st.current \o Backslash ELSE st.current
         IN  [threw |-> FALSE,
              args |-> IF last # "" THEN Append(st.args, last) ELSE st.args]

\* AfterLoop checking only for an open double quote.
AfterLoopDoubleQuoteOnly(st) ==
    IF st.quote = "\""
    THEN [threw |-> TRUE,
          message |-> "Syntax error: Unclosed quote " \o st.quote]
    ELSE [threw |-> FALSE,
          args |-> IF st.current # "" THEN Append(st.args, st.current) ELSE st.args]

\* After the loop (index.ts 283-288): throw on an open quote, else flush.
AfterLoop(st) ==
    IF st.quote # Null
    THEN [threw |-> TRUE,
          message |-> "Syntax error: Unclosed quote " \o st.quote]
    ELSE [threw |-> FALSE,
          args |-> IF st.current # "" THEN Append(st.args, st.current) ELSE st.args]

RECURSIVE ScanFrom(_, _, _)
ScanFrom(st, s, k) ==
    IF k >= Len(s) THEN st ELSE ScanFrom(LoopBody(st, CharAt(s, k)), s, k + 1)

\* parseArgs(commandStr) as one call (index.ts 243-289).
ParseArgs(s) == AfterLoop(ScanFrom(ScanInit, s, 0))

(***************************************************************************)
(* The tokenizer's specification: a command string is scanned one          *)
(* character per step.                                                     *)
(***************************************************************************)
TokChars == {"a", "b", " ", "\t", "\"", "'", "\\"}

\* Command strings of the tests (tests/index.test.ts 13-30) and of the spec.
TestCommands ==
    { "ls -la", "git commit -m \"fix bug\"", "echo 'hello world'",
      "echo \\\"hello\\\"", "echo \"hello", "echo 'hello", "a\"b\"c",
      "npm install | bash", "" }

CommandStrings == StringsUpTo(TokChars, MaxCmdLen) \cup TestCommands

scanState == [args |-> args, current |-> current, quote |-> quote, escape |-> escape]

IdleOthers ==
    /\ allowedCommands = <<>>
    /\ valCall = [made |-> FALSE]
    /\ valResult = Null
    /\ calls = <<>>

InitParse ==
    /\ commandStr \in CommandStrings
    /\ i = 0
    /\ args = ScanInit.args
    /\ current = ScanInit.current
    /\ quote = ScanInit.quote
    /\ escape = ScanInit.escape
    /\ parsePc = "loop"
    /\ parseOut = Null
    /\ IdleOthers

\* One iteration of the loop of parseArgs.
ScanChar ==
    /\ parsePc = "loop"
    /\ i < Len(commandStr)
    /\ LET st == LoopBody(scanState, CharAt(commandStr, i))
       IN  /\ args' = st.args
           /\ current' = st.current
           /\ quote' = st.quote
           /\ escape' = st.escape
    /\ i' = i + 1
    /\ UNCHANGED <<commandStr, parsePc, parseOut>>
    /\ UNCHANGED <<allowedCommands, valCall, valResult, calls>>

\* The loop has ended: parseArgs throws or returns.
ScanEnd ==
    /\ parsePc = "loop"
    /\ i >= Len(commandStr)
    /\ LET out == AfterLoop(scanState)
       IN  /\ parseOut' = out
           /\ parsePc' = IF out.threw THEN "threw" ELSE "returned"
           /\ args' = IF out.threw THEN args ELSE out.args
    /\ UNCHANGED <<commandStr, i, current, quote, escape>>
    /\ UNCHANGED <<allowedCommands, valCall, valResult, calls>>

NextParse == ScanChar \/ ScanEnd

SpecParse == InitParse /\ [][NextParse]_vars

(***************************************************************************)
(* Reference readings of a command string, computed by position and        *)
(* independently of the scan, against which the scan is checked.           *)
(***************************************************************************)
\* The character at index k (or the end of input, k = Len(s)) directly
\* follows a backslash that is not itself escaped.
RECURSIVE Escaped(_, _)
Escaped(s, k) ==
    /\ k > 0
    /\ CharAt(s, k - 1) = Backslash
    /\ ~Escaped(s, k - 1)

\* The least index j >= k of an unescaped character of chars in s, or -1.
RECURSIVE FirstUnescaped(_, _, _)
FirstUnescaped(s, k, chars) ==
    IF k >= Len(s) THEN -1
    ELSE IF CharAt(s, k) \in chars /\ ~Escaped(s, k) THEN k
    ELSE FirstUnescaped(s, k + 1, chars)

\* The quote left open at the end of s, reading quoted spans from index k:
\* the next unescaped quote character opens a span that the next unescaped
\* occurrence of the same character closes.
RECURSIVE OpenQuoteFrom(_, _)
OpenQuoteFrom(s, k) ==
    LET open == FirstUnescaped(s, k, QuoteChars)
    IN  IF open = -1 THEN Null
        ELSE LET close == FirstUnescaped(s, open + 1, {CharAt(s, open)})
             IN  IF close = -1 THEN CharAt(s, open)
                 ELSE OpenQuoteFrom(s, close + 1)

\* A step of the scan that consumes one character, and that character.
IsScanStep == parsePc = "loop" /\ i < Len(commandStr) /\ i' = i + 1
ScanStepChar == CharAt(commandStr, i)
ClosesQuote == ~escape /\ quote # Null /\ ScanStepChar = quote
OpensQuote == ~escape /\ quote = Null /\ ScanStepChar \in QuoteChars

(***************************************************************************)
(* C7. parseArgs throws 'Syntax error: Unclosed quote q' exactly when the  *)
(* input, read left to right, ends inside a quoted span opened by q; in    *)
(* every other case it returns a token sequence.                           *)
(***************************************************************************)
C7_UnclosedQuoteExactly ==
    parsePc # "loop" =>
        LET q == OpenQuoteFrom(commandStr, 0)
        IN  /\ (parsePc = "threw") <=> (q # Null)
            /\ parsePc = "threw" =>
                  /\ q \in QuoteChars
                  /\ parseOut = [threw |-> TRUE,
                                 message |-> "Syntax error: Unclosed quote " \o q]
            /\ parsePc = "returned" =>
                  /\ parseOut.threw = FALSE
                  /\ DOMAIN parseOut = {"threw", "args"}
                  /\ parseOut = ParseArgs(commandStr)

C7_Witness ==
    /\ parsePc = "threw"
    /\ commandStr = "echo 'hello"
    /\ parseOut.message = "Syntax error: Unclosed quote '"

(***************************************************************************)
(* C8 as stated: an unescaped quote character that opens or closes a quote *)
(* is not appended; every character between an opening quote and its       *)
(* closing quote is appended to the current token; closing a quote does    *)
(* not end the token.                                                      *)
(***************************************************************************)
C8_QuotedCharsAllAppended ==
    [][IsScanStep =>
        /\ (OpensQuote \/ ClosesQuote) => (current' = current /\ args' = args)
        /\ (quote # Null /\ ~ClosesQuote) =>
              (current' = current \o ScanStepChar /\ args' = args)]_vars

(***************************************************************************)
(* C8 amended: as above, except that inside a quote an unescaped backslash *)
(* is not appended (it makes the next character literal); every other      *)
(* character between the quotes, whitespace and the other kind of quote    *)
(* included, is appended. a"b"c is the one token abc and "fix bug" one     *)
(* token containing a space.                                               *)
(***************************************************************************)
C8_QuotedCharsAppended ==
    [][IsScanStep =>
        /\ (OpensQuote \/ ClosesQuote) => (current' = current /\ args' = args)
        /\ (quote # Null /\ ~ClosesQuote) =>
              /\ args' = args
              /\ current' = IF ~escape /\ ScanStepChar = Backslash
                            THEN current
                            ELSE current \o ScanStepChar
        /\ ParseArgs("a\"b\"c") = Returned(<<"abc">>)
        /\ ParseArgs("git commit -m \"fix bug\"") = Returned(<<"git", "commit", "-m", "fix bug">>)
        /\ ParseArgs("echo 'hello world'") = Returned(<<"echo", "hello world">>)]_vars

C8_Witness ==
    /\ parsePc = "returned"
    /\ commandStr = "a\"b\"c"
    /\ parseOut.args = <<"abc">>

(***************************************************************************)
(* C9. Backslash escaping is global: at every point of the scan the escape *)
(* flag says whether the next character follows an unescaped backslash,    *)
(* whatever quote is open; an unescaped backslash is dropped, and the      *)
(* character after it is appended literally without opening or closing a   *)
(* quote and without splitting the token.                                  *)
(***************************************************************************)
C9_EscapeIsGlobal ==
    [][IsScanStep =>
        /\ escape = Escaped(commandStr, i)
        /\ escape =>
              /\ current' = current \o ScanStepChar
              /\ quote' = quote
              /\ args' = args
              /\ ~escape'
        /\ (~escape /\ ScanStepChar = Backslash) =>
              /\ current' = current
              /\ quote' = quote
              /\ args' = args
              /\ escape'
        /\ ParseArgs("echo \\\"hello\\\"") = Returned(<<"echo", "\"hello\"">>)
        /\ ParseArgs("a\\ b") = Returned(<<"a b">>)
        /\ ParseArgs("'a\\'b'") = Returned(<<"a'b">>)
        /\ ParseArgs("\\\\") = Returned(<<"\\">>)]_vars

C9_Witness ==
    /\ parsePc = "returned"
    /\ commandStr = "'\\''"
    /\ parseOut.args = <<"'">>

(***************************************************************************)
(* Argument matchers (index.ts 13-17): a string, or a RegExp object, which *)
(* carries its lastIndex; anything else a configuration file may hold      *)
(* (a number, a boolean) is of type "other".                               *)
(***************************************************************************)
Str(value) == [type |-> "string", value |-> value]
Re(source, flags) ==
    [type |-> "regexp", source |-> source, flags |-> flags, lastIndex |-> 0]
Other == [type |-> "other"]

\* The patterns of the compiled-in rules (index.ts 51-52, 93-94) and of the
\* README's configuration (README.md 37-38), by their source text.
PatWord == "^[\"\\w@/.-]+$"
PatDash == "^-"
PatSingleQuoted == "^'[^']*'$"
PatDoubleQuoted == "^\"[^\"]*\"$"
PatWordConfig == "^[\\w@/.-]+$"

Letters ==
    { "a", "b", "c", "d", "e", "f", "g", "h", "i", "j", "k", "l", "m",
      "n", "o", "p", "q", "r", "s", "t", "u", "v", "w", "x", "y", "z",
      "A", "B", "C", "D", "E", "F", "G", "H", "I", "J", "K", "L", "M",
      "N", "O", "P", "Q", "R", "S", "T", "U", "V", "W", "X", "Y", "Z" }
Digits == {"0", "1", "2", "3", "4", "5", "6", "7", "8", "9"}
WordChars == Letters \cup Digits \cup {"_"}          \* \w

\* One pattern element: a character class and how often it repeats.
One(chars) == [chars |-> chars, neg |-> FALSE, quant |-> "1"]
Plus(chars) == [chars |-> chars, neg |-> FALSE, quant |-> "+"]
StarNot(chars) == [chars |-> chars, neg |-> TRUE, quant |-> "*"]

\* A pattern made of literal characters between an optional ^ and $.
LiteralProgram(source) ==
    LET bol == Len(source) > 0 /\ CharAt(source, 0) = "^"
        from == IF bol THEN 1 ELSE 0
        eol == Len(source) > from /\ CharAt(source, Len(source) - 1) = "$"
        body == Substring(source, from, IF eol THEN Len(source) - 1 ELSE Len(source))
    IN  [bol |-> bol, eol |-> eol,
         items |-> [k \in 1..Len(body) |-> One({CharAt(body, k - 1)})]]

\* The matching program of a pattern: anchors and a sequence of elements.
RegExpProgram(source) ==
    CASE source = PatWord ->
           [bol |-> TRUE, eol |-> TRUE,
            items |-> <<Plus(WordChars \cup {"\"", "@", "/", ".", "-"})>>]
      [] source = PatWordConfig ->
           [bol |-> TRUE, eol |-> TRUE,
            items |-> <<Plus(WordChars \cup {"@", "/", ".", "-"})>>]
      [] source = PatDash ->
           [bol |-> TRUE, eol |-> FALSE, items |-> <<One({"-"})>>]
      [] source = PatSingleQuoted ->
           [bol |-> TRUE, eol |-> TRUE,
            items |-> <<One({"'"}), StarNot({"'"}), One({"'"})>>]
      [] source = PatDoubleQuoted ->
           [bol |-> TRUE, eol |-> TRUE,
            items |-> <<One({"\""}), StarNot({"\""}), One({"\""})>>]
      [] OTHER -> LiteralProgram(source)

ClassHas(item, c) == (c \in item.chars) # item.neg

\* How many characters of s from index p on are in the element's class.
RECURSIVE RunLength(_, _, _)
RunLength(item, s, p) ==
    IF p < Len(s) /\ ClassHas(item, CharAt(s, p))
    THEN 1 + RunLength(item, s, p + 1)
    ELSE 0

\* Of the run lengths n of a repeated element, with rest[n] the end of the
\* match of the rest of the pattern after n repetitions (-1: none), the end
\* for the longest run that lets the rest match: repetition is greedy and
\* backtracks.
LongestRun(rest) ==
    IF \A n \in DOMAIN rest : rest[n] = -1 THEN -1
    ELSE rest[CHOOSE n \in DOMAIN rest :
                 /\ rest[n] # -1
                 /\ \A m \in DOMAIN rest : rest[m] # -1 => m <= n]

\* The end index of the match of elements k.. of prog at index p of s, or -1.
RECURSIVE MatchItems(_, _, _, _)
MatchItems(prog, s, k, p) ==
    IF k > Len(prog.items)
    THEN IF prog.eol /\ p # Len(s) THEN -1 ELSE p
    ELSE IF prog.items[k].quant = "1"
    THEN IF p < Len(s) /\ ClassHas(prog.items[k], CharAt(s, p))
         THEN MatchItems(prog, s, k + 1, p + 1)
         ELSE -1
    ELSE LongestRun([n \in (IF prog.items[k].quant = "+" THEN 1 ELSE 0)
                              ..RunLength(prog.items[k], s, p)
                        |-> MatchItems(prog, s, k + 1, p + n)])

MatchAt(prog, s, p) == IF prog.bol /\ p # 0 THEN -1 ELSE MatchItems(prog, s, 1, p)

\* Of the start indices q, with ends[q] the end of the match at q (-1: none),
\* the end of the match at the least index that has one.
FirstMatch(ends) ==
    IF \A q \in DOMAIN ends : ends[q] = -1 THEN -1
    ELSE ends[CHOOSE q \in DOMAIN ends :
                 /\ ends[q] # -1
                 /\ \A r \in DOMAIN ends : ends[r] # -1 => q <= r]

\* The pattern is tried at p, p + 1, ... up to the end of s.
SearchFrom(prog, s, p) == FirstMatch([q \in p..Len(s) |-> MatchAt(prog, s, q)])

RECURSIVE IndexOf(_, _, _)
IndexOf(s, c, k) ==
    IF k >= Len(s) THEN -1 ELSE IF CharAt(s, k) = c THEN k ELSE IndexOf(s, c, k + 1)

RECURSIVE LastIndexOfFrom(_, _, _)
LastIndexOfFrom(s, c, k) ==
    IF k < 0 THEN -1 ELSE IF CharAt(s, k) = c THEN k ELSE LastIndexOfFrom(s, c, k - 1)

LastIndexOf(s, c) == LastIndexOfFrom(s, c, Len(s) - 1)

HasFlag(flags, f) == IndexOf(flags, f, 0) # -1

Stateful(re) == HasFlag(re.flags, "g") \/ HasFlag(re.flags, "y")

\* RegExpExec finding only a match that is the whole of s.
RegExpExecWhole(re, s, start) ==
    IF start > 0 THEN -1
    ELSE MatchItems([RegExpProgram(re.source) EXCEPT !.bol = TRUE, !.eol = TRUE], s, 1, 0)

\* The end of the match the search from index start finds, or -1: with the y
\* flag the pattern is tried at start alone.
RegExpExec(re, s, start) ==
    IF start > Len(s) THEN -1
    ELSE IF HasFlag(re.flags, "y") THEN MatchAt(RegExpProgram(re.source), s, start)
    ELSE SearchFrom(RegExpProgram(re.source), s, start)

\* What test returns for a search that ended at e, and the lastIndex it
\* leaves in the object: untouched without g and y, else e, or 0 on failure.
RegExpOutcome(re, e) ==
    [matched |-> e # -1,
     lastIndex |-> IF ~Stateful(re) THEN re.lastIndex
                   ELSE IF e = -1 THEN 0 ELSE e]

\* RegExp.prototype.test, called at index.ts 304 and 318: the search starts
\* at lastIndex when the g or y flag is set, at 0 otherwise.
RegExpTest(re, s) ==
    RegExpOutcome(re, RegExpExec(re, s, IF Stateful(re) THEN re.lastIndex ELSE 0))

(***************************************************************************)
(* validateCommand.                                                        *)
(***************************************************************************)
NotWhitelisted(baseCommand) ==
    "Command '" \o baseCommand \o "' is not in the allowed whitelist."
Denied(arg, baseCommand) ==
    "Argument '" \o arg \o "' for command '" \o baseCommand \o "' is explicitly denied."
NotAllowed(arg, baseCommand) ==
    "Argument '" \o arg \o "' for command '" \o baseCommand \o "' is not allowed."

\* Whether matcher m matches arg (index.ts 301-306, 315-320), and the
\* lastIndex the test leaves in m (0 for a matcher that has none).
TestMatcher(m, arg) ==
    IF m.type = "string" THEN [matched |-> arg = m.value, lastIndex |-> 0]
    ELSE IF m.type = "regexp" THEN RegExpTest(m, arg)
    ELSE [matched |-> FALSE, lastIndex |-> 0]

AfterTest(m, t) == IF m.type = "regexp" THEN [m EXCEPT !.lastIndex = t.lastIndex] ELSE m

\* matchers.some(m => ...) of index.ts 300-307 and 314-321, from matcher k on:
\* whether one matched, and the matchers as the tests made left them. some
\* stops at the first matcher that matches.
RECURSIVE SomeMatches(_, _, _)
RECURSIVE SomeMatchesAfter(_, _, _, _)
SomeMatches(matchers, k, arg) ==
    IF k > Len(matchers) THEN [found |-> FALSE, matchers |-> matchers]
    ELSE SomeMatchesAfter(matchers, k, arg, TestMatcher(matchers[k], arg))

SomeMatchesAfter(matchers, k, arg, t) ==
    IF t.matched
    THEN [found |-> TRUE, matchers |-> [matchers EXCEPT ![k] = AfterTest(@, t)]]
    ELSE SomeMatches([matchers EXCEPT ![k] = AfterTest(@, t)], k + 1, arg)

\* index.ts 313-326 for one arg, a being allowedArgs.some(...).
AllowedOutcome(rule, arg, a) ==
    [result |-> IF a.found THEN Null ELSE NotAllowed(arg, rule.command),
     rule |-> [rule EXCEPT !.allowedArgs = a.matchers]]

CheckAllowed(rule, arg) ==
    IF "allowedArgs" \in DOMAIN rule
    THEN AllowedOutcome(rule, arg, SomeMatches(rule.allowedArgs, 1, arg))
    ELSE [result |-> Null, rule |-> rule]

\* index.ts 299-311 for one arg, d being deniedArgs.some(...), then 313-326.
DeniedOutcome(rule, arg, d) ==
    IF d.found
    THEN [result |-> Denied(arg, rule.command),
          rule |-> [rule EXCEPT !.deniedArgs = d.matchers]]
    ELSE CheckAllowed([rule EXCEPT !.deniedArgs = d.matchers], arg)

\* CheckArg with the allowed matchers consulted first, an allowed argument
\* passing without the denied ones being asked.
CheckArgAllowFirst(rule, arg) ==
    IF "allowedArgs" \in DOMAIN rule /\ SomeMatches(rule.allowedArgs, 1, arg).found
    THEN [result |-> Null, rule |-> rule]
    ELSE IF "deniedArgs" \in DOMAIN rule
    THEN DeniedOutcome(rule, arg, SomeMatches(rule.deniedArgs, 1, arg))
    ELSE CheckAllowed(rule, arg)

\* The body of the loop over the arguments (index.ts 299-326) for one arg:
\* the message returned, or Null to go on, and the rule as the tests left it.
CheckArg(rule, arg) ==
    IF "deniedArgs" \in DOMAIN rule
    THEN DeniedOutcome(rule, arg, SomeMatches(rule.deniedArgs, 1, arg))
    ELSE CheckAllowed(rule, arg)

\* for (const arg of args), from argument k on (index.ts 298-327): the first
\* message returned ends the loop.
RECURSIVE CheckArgs(_, _, _)
RECURSIVE CheckArgsAfter(_, _, _)

\* CheckArgs asking for at least one argument when the rule lists allowed
\* arguments.
CheckArgsNeedsArgument(rule, argv, k) ==
    IF k > Len(argv)
    THEN [result |-> IF Len(argv) = 0 /\ "allowedArgs" \in DOMAIN rule
                     THEN NotAllowed("", rule.command)
                     ELSE Null,
          rule |-> rule]
    ELSE CheckArgsAfter(CheckArg(rule, argv[k]), argv, k)

\* CheckArgs looking at one argument only.
CheckArgsOneOnly(rule, argv, k) ==
    IF k > Len(argv) THEN [result |-> Null, rule |-> rule]
    ELSE CheckArg(rule, argv[k])

CheckArgs(rule, argv, k) ==
    IF k > Len(argv) THEN [result |-> Null, rule |-> rule]
    ELSE CheckArgsAfter(CheckArg(rule, argv[k]), argv, k)

CheckArgsAfter(c, argv, k) ==
    IF c.result # Null THEN c ELSE CheckArgs(c.rule, argv, k + 1)

\* FindRule settling for the last rule when none is the command's.
RECURSIVE FindRuleOrLast(_, _, _)
FindRuleOrLast(rules, baseCommand, k) ==
    IF k >= Len(rules) THEN Len(rules)
    ELSE IF rules[k].command = baseCommand THEN k
    ELSE FindRuleOrLast(rules, baseCommand, k + 1)

\* this.allowedCommands.find(c => c.command === baseCommand): the index of
\* the first rule for the command, 0 when there is none (index.ts 292).
RECURSIVE FindRule(_, _, _)
FindRule(rules, baseCommand, k) ==
    IF k > Len(rules) THEN 0
    ELSE IF rules[k].command = baseCommand THEN k
    ELSE FindRule(rules, baseCommand, k + 1)

\* The rule set with rule k as the loop over the arguments left it.
WithRule(rules, k, c) == [result |-> c.result, rules |-> [rules EXCEPT ![k] = c.rule]]

\* ValidateWith reading a rule without lists as one with empty lists.
ValidateWithEmptyLists(rules, k, baseCommand, argv) ==
    IF k = 0
    THEN [result |-> NotWhitelisted(baseCommand), rules |-> rules]
    ELSE IF "allowedArgs" \in DOMAIN rules[k] \/ "deniedArgs" \in DOMAIN rules[k]
    THEN WithRule(rules, k, CheckArgs(rules[k], argv, 1))
    ELSE [result |-> IF Len(argv) = 0 THEN Null
                     ELSE NotAllowed(argv[1], baseCommand),
          rules |-> rules]

\* index.ts 293-330 with k what find returned.
ValidateWith(rules, k, baseCommand, argv) ==
    IF k = 0
    THEN [result |-> NotWhitelisted(baseCommand), rules |-> rules]
    ELSE IF "allowedArgs" \in DOMAIN rules[k] \/ "deniedArgs" \in DOMAIN rules[k]
    THEN WithRule(rules, k, CheckArgs(rules[k], argv, 1))
    ELSE [result |-> Null, rules |-> rules]

\* validateCommand(baseCommand, args) on the rule set rules (index.ts 291-331):
\* the message or Null it returns, and the rule set as the call left it.
ValidateCommand(rules, baseCommand, argv) ==
    ValidateWith(rules, FindRule(rules, baseCommand, 1), baseCommand, argv)

(***************************************************************************)
(* Rule sets: the compiled-in defaults and configuration files.            *)
(***************************************************************************)
Rule(command) == [command |-> command]
RuleAllow(command, allowed) == [command |-> command, allowedArgs |-> allowed]
RuleDeny(command, denied) == [command |-> command, deniedArgs |-> denied]
RuleBoth(command, allowed, denied) ==
    [command |-> command, allowedArgs |-> allowed, deniedArgs |-> denied]

\* ["a", "b"] as matchers.
Strs(values) == [k \in 1..Len(values) |-> Str(values[k])]

DefaultPatterns == <<Re(PatWord, ""), Re(PatDash, "")>>

DEFAULT_ALLOWED_COMMANDS ==
    << Rule("ls"), Rule("cat"), Rule("echo"), Rule("pwd"), Rule("whoami"),
       Rule("date"), Rule("grep"), Rule("find"), Rule("head"), Rule("tail"),
       Rule("wc"), Rule("du"), Rule("df"), Rule("which"),
       Rule("mkdir"), Rule("touch"), Rule("cp"),
       RuleBoth("npm",
           Strs(<<"install", "i", "ci",
                  "run", "test", "start", "build", "dev", "lint", "format",
                  "init", "create",
                  "list", "ls",
                  "view", "search", "info", "audit", "fund", "doctor",
                  "version", "v">>) \o DefaultPatterns,
           Strs(<<"publish", "unpublish", "login", "logout", "adduser", "owner",
                  "team", "token", "whoami", "eval", "exec">>)),
       RuleBoth("yarn",
           Strs(<<"install", "add", "remove",
                  "run", "test", "start", "build", "dev", "lint", "format",
                  "init", "create",
                  "list", "info", "audit", "why",
                  "version", "-v", "--version">>) \o DefaultPatterns,
           Strs(<<"publish", "login", "logout", "owner", "team", "whoami",
                  "exec", "node">>)),
       RuleBoth("pnpm",
           Strs(<<"install", "i", "add", "remove",
                  "run", "test", "start", "build", "dev", "lint", "format",
                  "init", "create",
                  "list", "ls", "info", "audit", "why", "store",
                  "version", "-v", "--version">>) \o DefaultPatterns,
           Strs(<<"publish", "login", "logout", "server", "exec", "dlx">>)),
       Rule("tsc"),
       RuleAllow("git",
           Strs(<<"status", "log", "diff", "show", "branch", "tag",
                  "checkout", "switch", "add", "commit", "push", "pull", "fetch",
                  "clone", "init", "remote", "config",
                  "stash", "merge", "rebase", "reset", "restore",
                  "clean", "blame", "grep">>)
             \o DefaultPatterns
             \o <<Re(PatSingleQuoted, ""), Re(PatDoubleQuoted, "")>>),
       Rule("pod"), Rule("xcodebuild"), Rule("fastlane"),
       Rule("curl") >>

\* new RegExp(pattern, flags) does not throw (index.ts 169): the flags are
\* distinct letters of dgimsuvy, not both u and v, and the pattern is
\* well formed. The model's patterns are the ones above, literal text, and
\* the ill-formed "(" and "[".
RegExpFlags == {"d", "g", "i", "m", "s", "u", "v", "y"}
ValidFlags(flags) ==
    /\ \A k \in 0..(Len(flags) - 1) :
          /\ CharAt(flags, k) \in RegExpFlags
          /\ IndexOf(flags, CharAt(flags, k), 0) = k
    /\ ~(HasFlag(flags, "u") /\ HasFlag(flags, "v"))
RegExpConstructs(pattern, flags) == ValidFlags(flags) /\ pattern \notin {"(", "["}

\* parseRegex(arg) (index.ts 162-175) on a value of a configuration file.
ParseRegex(arg) ==
    IF arg.type # "string" THEN arg
    ELSE IF Len(arg.value) > 0 /\ CharAt(arg.value, 0) = "/"
            /\ LastIndexOf(arg.value, "/") > 0
    THEN LET lastSlash == LastIndexOf(arg.value, "/")
             pattern == Substring(arg.value, 1, lastSlash)
             flags == Substring(arg.value, lastSlash + 1, Len(arg.value))
         IN  IF RegExpConstructs(pattern, flags)
             THEN Re(pattern, flags)
             ELSE arg
    ELSE arg

ParseRegexAll(list) == [k \in 1..Len(list) |-> ParseRegex(list[k])]

\* cmd => ({...cmd, allowedArgs: ..., deniedArgs: ...}) (index.ts 150-154);
\* a list the file does not give stays undefined.
MapCommand(cmd) ==
    [f \in DOMAIN cmd |->
        IF f \in {"allowedArgs", "deniedArgs"} THEN ParseRegexAll(cmd[f]) ELSE cmd[f]]

\* readConfigFile (index.ts 143-160) on the parsed content of the file, or
\* on the error that reading or parsing it throws.
ReadConfigFile(config) ==
    IF "error" \in DOMAIN config THEN DEFAULT_ALLOWED_COMMANDS
    ELSE IF "allowedCommands" \in DOMAIN config
    THEN [k \in 1..Len(config.allowedCommands) |-> MapCommand(config.allowedCommands[k])]
    ELSE DEFAULT_ALLOWED_COMMANDS

\* The README's example file (README.md 33-41).
ConfigReadme ==
    [allowedCommands |->
        << Rule("ls"),
           RuleAllow("npm", Strs(<<"install", "run", "test", "/^[\\w@/.-]+$/">>)),
           RuleAllow("git", Strs(<<"status", "add", "commit", "/^[\\w@/.-]+$/">>)) >>]

\* Files whose patterns carry the g flag.
ConfigGlobal ==
    [allowedCommands |->
        << Rule("ls"),
           RuleBoth("npm", Strs(<<"install", "/^-/", "/^[\\w@/.-]+$/g">>),
                           Strs(<<"/publish/g">>)),
           RuleDeny("git", Strs(<<"/^publish$/g", "/^-/">>)) >>]

\* ... and the y flag.
ConfigSticky ==
    [allowedCommands |->
        << RuleBoth("npm", Strs(<<"/install/y", "/^-/">>),
                           Strs(<<"/publish/y">>)),
           RuleAllow("git", Strs(<<"/install/gy", "status">>)) >>]

\* A file with an empty allowed list, a denied list alone, values that are
\* not strings, text that is no RegExp, and two rules for one command.
ConfigMixed ==
    [allowedCommands |->
        << RuleAllow("tool", <<>>),
           RuleDeny("git", <<Str("publish"), Other, Str("/^-r/"), Str("/publish/x"),
                             Str("/(/"), Str("/")>>),
           RuleBoth("npm", Strs(<<"install", "/publish/", "//">>), Strs(<<"/-/">>)),
           Rule("npm") >>]

\* A file without an allowedCommands array.
ConfigNoList == [version |-> "1"]

\* A file that is not JSON.
ConfigUnreadable == [error |-> "SyntaxError"]

Configs == {ConfigUnreadable, ConfigNoList, ConfigReadme, ConfigGlobal, ConfigSticky, ConfigMixed}

\* loadConfig (index.ts 127-141): a configuration file when one exists, the
\* defaults otherwise.
RuleSets == {DEFAULT_ALLOWED_COMMANDS} \cup {ReadConfigFile(c) : c \in Configs}

(***************************************************************************)
(* The validator's specification: a server holds one rule set for its      *)
(* lifetime and validateCommand is called on it again and again.           *)
(***************************************************************************)
MaxArgs == 2         \* longest argument list enumerated

Programs == {"ls", "npm", "git", "tool", "rm"}
ArgWords == {"install", "publish", "republish", "|", "my-package", "-rf"}

RECURSIVE SeqsUpTo(_, _)
SeqsUpTo(S, n) ==
    IF n = 0 THEN {<<>>}
    ELSE LET shorter == SeqsUpTo(S, n - 1)
         IN  shorter \cup {Append(q, x) : q \in {t \in shorter : Len(t) = n - 1}, x \in S}

ArgLists == SeqsUpTo(ArgWords, MaxArgs)

NoCall == [made |-> FALSE]
Call(baseCommand, argv) == [made |-> TRUE, baseCommand |-> baseCommand, args |-> argv]

IdleParse ==
    /\ commandStr = ""
    /\ i = 0
    /\ args = <<>>
    /\ current = ""
    /\ quote = Null
    /\ escape = FALSE
    /\ parsePc = "idle"
    /\ parseOut = Null

\* The constructor (index.ts 110-125): this.allowedCommands = this.loadConfig().
InitValidate ==
    /\ allowedCommands \in RuleSets
    /\ valCall = NoCall
    /\ valResult = Null
    /\ calls = <<>>
    /\ IdleParse

\* validateCommand has returned v.result and left the rule set v.rules.
Validated(v) ==
    /\ valResult' = v.result
    /\ allowedCommands' = v.rules

\* A call validateCommand(baseCommand, argv): the first on this rule set
\* state, or the same call made again.
Validate(baseCommand, argv) ==
    /\ valCall \in {NoCall, Call(baseCommand, argv)}
    /\ Validated(ValidateCommand(allowedCommands, baseCommand, argv))
    /\ valCall' = Call(baseCommand, argv)
    /\ UNCHANGED <<commandStr, i, args, current, quote, escape, parsePc, parseOut, calls>>

\* The caller is done with the result.
ValidateReturn ==
    /\ valCall # NoCall
    /\ valCall' = NoCall
    /\ valResult' = Null
    /\ UNCHANGED <<commandStr, i, args, current, quote, escape, parsePc, parseOut, calls>>
    /\ UNCHANGED allowedCommands

NextValidate ==
    \/ \E baseCommand \in Programs, argv \in ArgLists : Validate(baseCommand, argv)
    \/ ValidateReturn

SpecValidate == InitValidate /\ [][NextValidate]_vars

(***************************************************************************)
(* Reference readings of a rule set, independent of the state a RegExp     *)
(* object carries, against which validateCommand is checked.               *)
(***************************************************************************)
\* The rule validateCommand reads for the call just made: the first whose
\* command is the program's.
RulesFor(baseCommand) ==
    {k \in 1..Len(allowedCommands) : allowedCommands[k].command = baseCommand}
TheRule ==
    allowedCommands[CHOOSE k \in RulesFor(valCall.baseCommand) :
                       \A m \in RulesFor(valCall.baseCommand) : k <= m]
HasRule == valCall.made /\ RulesFor(valCall.baseCommand) # {}
HasAllowed == HasRule /\ "allowedArgs" \in DOMAIN TheRule
HasDenied == HasRule /\ "deniedArgs" \in DOMAIN TheRule

\* The literal is the argument, or the pattern matches somewhere in it.
MayMatch(m, arg) ==
    \/ m.type = "string" /\ m.value = arg
    \/ m.type = "regexp" /\ SearchFrom(RegExpProgram(m.source), arg, 0) # -1

\* ... for a matcher whose test does not depend on a lastIndex.
Matches(m, arg) == MayMatch(m, arg) /\ (m.type = "regexp" => ~Stateful(m))

SomeOf(list, arg, M(_, _)) == \E k \in 1..Len(list) : M(list[k], arg)

AllowedMayMatch(arg) == SomeOf(TheRule.allowedArgs, arg, MayMatch)
AllowedMatches(arg) == SomeOf(TheRule.allowedArgs, arg, Matches)
DeniedMayMatch(arg) == HasDenied /\ SomeOf(TheRule.deniedArgs, arg, MayMatch)
DeniedMatches(arg) == HasDenied /\ SomeOf(TheRule.deniedArgs, arg, Matches)

CallArgs == valCall.args
CallCmd == valCall.baseCommand
Rejected == valResult # Null

\* The call was rejected for an argument before the j-th.
RejectedBefore(j) ==
    \E k \in 1..(j - 1) :
        valResult \in {Denied(CallArgs[k], CallCmd), NotAllowed(CallArgs[k], CallCmd)}

ValidateDefault(baseCommand, argv) ==
    ValidateCommand(DEFAULT_ALLOWED_COMMANDS, baseCommand, argv).result

(***************************************************************************)
(* C2. Whenever no rule's command equals the program, validateCommand      *)
(* returns the 'not in the allowed whitelist' message naming the program,  *)
(* whatever the arguments; under the defaults rm, sudo, shutdown and npx   *)
(* are rejected so.                                                        *)
(***************************************************************************)
UnlistedExamples ==
    \A p \in {"rm", "sudo", "shutdown", "npx"} :
        \A argv \in SeqsUpTo({"-rf", "/", "install", "create-next-app@latest"}, 2) :
            ValidateDefault(p, argv)
                = "Command '" \o p \o "' is not in the allowed whitelist."

C2_UnlistedProgramRejected ==
    /\ (/\ valCall.made
        /\ \A k \in 1..Len(allowedCommands) : allowedCommands[k].command # CallCmd)
            => valResult = NotWhitelisted(CallCmd)
    /\ UnlistedExamples

C2_Witness ==
    /\ allowedCommands = DEFAULT_ALLOWED_COMMANDS
    /\ valCall = Call("rm", <<"-rf", "install">>)
    /\ valResult = NotWhitelisted("rm")

(***************************************************************************)
(* C3 as stated: for a rule with denied and allowed matchers, when some    *)
(* argument matches a denied matcher the call is rejected with the         *)
(* 'explicitly denied' reason for such an argument.                        *)
(***************************************************************************)
C3_AnyDeniedArgGivesDenied ==
    (HasAllowed /\ HasDenied) =>
        ((\E j \in 1..Len(CallArgs) : DeniedMatches(CallArgs[j]))
            => \E j \in 1..Len(CallArgs) :
                  /\ DeniedMatches(CallArgs[j])
                  /\ valResult = Denied(CallArgs[j], CallCmd))

(***************************************************************************)
(* C3 amended: for a rule with denied and allowed matchers, an argument    *)
(* that equals a denied literal or is matched by a denied pattern (one     *)
(* without g or y flag) makes the call fail even when it also matches an   *)
(* allowed matcher: with the 'explicitly denied' reason naming it, unless  *)
(* an earlier argument was rejected first. Default npm with publish,       *)
(* whoami or eval is rejected as explicitly denied.                        *)
(***************************************************************************)
DeniedNpmExamples ==
    \A w \in {"publish", "whoami", "eval"} :
        /\ MayMatch(Re(PatWord, ""), w)
        /\ ValidateDefault("npm", <<w>>) = Denied(w, "npm")
        /\ ValidateDefault("npm", <<"install", w>>) = Denied(w, "npm")

C3_DenyOverridesAllow ==
    /\ (HasAllowed /\ HasDenied) =>
          \A j \in 1..Len(CallArgs) :
              DeniedMatches(CallArgs[j]) =>
                  /\ Rejected
                  /\ valResult = Denied(CallArgs[j], CallCmd) \/ RejectedBefore(j)
                  /\ (\A k \in 1..(j - 1) :
                          AllowedMatches(CallArgs[k]) /\ ~DeniedMayMatch(CallArgs[k]))
                        => valResult = Denied(CallArgs[j], CallCmd)
    /\ DeniedNpmExamples

C3_Witness ==
    /\ allowedCommands = DEFAULT_ALLOWED_COMMANDS
    /\ valCall = Call("npm", <<"install", "publish">>)
    /\ AllowedMatches("publish")
    /\ valResult = Denied("publish", "npm")

(***************************************************************************)
(* C4 as stated: for a rule with allowed matchers a call is accepted only  *)
(* if every argument matches an allowed matcher, and when some argument    *)
(* matches none the call is rejected with the 'not allowed' reason naming  *)
(* such an argument.                                                       *)
(***************************************************************************)
C4_UnmatchedArgGivesNotAllowed ==
    HasAllowed =>
        /\ valResult = Null => \A j \in 1..Len(CallArgs) : AllowedMayMatch(CallArgs[j])
        /\ (\E j \in 1..Len(CallArgs) : ~AllowedMayMatch(CallArgs[j]))
              => \E j \in 1..Len(CallArgs) :
                    /\ ~AllowedMayMatch(CallArgs[j])
                    /\ valResult = NotAllowed(CallArgs[j], CallCmd)

(***************************************************************************)
(* C4 amended: for a rule with allowed matchers a call is accepted only if *)
(* every argument matches an allowed matcher; an argument that matches     *)
(* none makes the call fail, with the 'not allowed' reason naming it       *)
(* unless that argument is explicitly denied or an earlier argument was    *)
(* rejected first. npm rejects '|' and ';' (the tokens of                  *)
(* 'npm install | bash' are rejected for '|') and accepts install,         *)
(* my-package and @my-scope/pkg-name.js.                                   *)
(***************************************************************************)
AllowedNpmExamples ==
    /\ ParseArgs("npm install | bash") = Returned(<<"npm", "install", "|", "bash">>)
    /\ ValidateDefault("npm", <<"install", "|", "bash">>) = NotAllowed("|", "npm")
    /\ ValidateDefault("npm", <<"|">>) = NotAllowed("|", "npm")
    /\ ValidateDefault("npm", <<";">>) = NotAllowed(";", "npm")
    /\ ValidateDefault("npm", <<"install">>) = Null
    /\ ValidateDefault("npm", <<"install", "my-package">>) = Null
    /\ ValidateDefault("npm", <<"install", "@my-scope/pkg-name.js">>) = Null

C4_EveryArgMustBeAllowed ==
    /\ HasAllowed =>
          /\ valResult = Null => \A j \in 1..Len(CallArgs) : AllowedMayMatch(CallArgs[j])
          /\ \A j \in 1..Len(CallArgs) :
                ~AllowedMayMatch(CallArgs[j]) =>
                    /\ Rejected
                    /\ \/ valResult = NotAllowed(CallArgs[j], CallCmd)
                       \/ valResult = Denied(CallArgs[j], CallCmd)
                       \/ RejectedBefore(j)
                    /\ (/\ \A k \in 1..(j - 1) : AllowedMatches(CallArgs[k])
                        /\ \A k \in 1..j : ~DeniedMayMatch(CallArgs[k]))
                          => valResult = NotAllowed(CallArgs[j], CallCmd)
    /\ AllowedNpmExamples

C4_Witness ==
    /\ allowedCommands = DEFAULT_ALLOWED_COMMANDS
    /\ valCall = Call("npm", <<"install", "|">>)
    /\ valResult = NotAllowed("|", "npm")

(***************************************************************************)
(* C5. A program whose rule has neither allowed nor denied matchers is     *)
(* accepted with every argument sequence, shell operators included         *)
(* (ls with | and grep).                                                   *)
(***************************************************************************)
BareRuleExamples ==
    /\ ValidateDefault("ls", <<"|", "grep">>) = Null
    /\ ValidateDefault("ls", <<>>) = Null
    /\ ValidateDefault("pwd", <<>>) = Null

C5_BareRuleAcceptsAll ==
    /\ (HasRule /\ ~HasAllowed /\ ~HasDenied) => valResult = Null
    /\ BareRuleExamples

C5_Witness ==
    /\ allowedCommands = DEFAULT_ALLOWED_COMMANDS
    /\ valCall = Call("ls", <<"|", "-rf">>)
    /\ valResult = Null

(***************************************************************************)
(* C6. Calling validateCommand twice in a row with the same program and    *)
(* arguments returns the same result, and a call leaves the rule set and   *)
(* its matchers as they were.                                              *)
(***************************************************************************)
C6_ValidationIdempotent ==
    [][valCall'.made =>
          /\ allowedCommands' = allowedCommands
          /\ valCall = valCall' => valResult' = valResult]_vars

(***************************************************************************)
(* spawnAsync (index.ts 333-385).  One invocation is a record: the         *)
(* executor's locals (stdout, stderr, the two truncated flags, timedOut,   *)
(* the timer), the promise, and what the operating system has done with    *)
(* the child so far.  Every callback runs to completion on the event loop, *)
(* so each is one step.                                                    *)
(***************************************************************************)

\* timeoutMs = 10 * 60 * 1000
timeoutMs == 600000

\* maxBuffer = 10 * 1024 * 1024 in the source, scaled down.
MaxBuffer == 2

\* What one data event carries.
Chunks == {"a", "bb"}

TruncationMarker == "\n...[Output truncated due to size limit]..."

\* new Error(message), or the error object the child emits.
Error(message) == [message |-> message]

TimedOutError == Error("Command timed out after " \o ToString(timeoutMs) \o "ms")

\* What 'close' carries: an exit code, or null with the signal that ended
\* the child.
ExitedWith(n) == [code |-> n]
KilledBy(signal) == [signal |-> signal]
CloseEvents == {ExitedWith(0), ExitedWith(1), KilledBy("SIGTERM")}
IsCodeZero(e) == "code" \in DOMAIN e /\ e.code = 0
CodeText(e) == IF "code" \in DOMAIN e THEN ToString(e.code) ELSE "null"

ExitError(e, stderr) ==
    Error("Command exited with code " \o CodeText(e) \o "\nStderr: " \o stderr)

\* The error of a child that could not be started, and of a spawn call
\* that throws before a child exists.
SpawnError(cmd) == Error("spawn " \o cmd \o " ENOENT")
SpawnThrown(cmd) == Error("spawn " \o cmd \o " E2BIG")

\* A promise settles once: resolve and reject on a settled promise do
\* nothing.
Pending == [state |-> "pending"]

Resolve(promise, value) ==
    IF promise.state = "pending"
    THEN [state |-> "fulfilled", value |-> value]
    ELSE promise

\* Reject replacing what the promise was settled with.
RejectAlways(promise, reason) == [state |-> "rejected", reason |-> reason]

Reject(promise, reason) ==
    IF promise.state = "pending"
    THEN [state |-> "rejected", reason |-> reason]
    ELSE promise

\* The state right after the executor has run: spawn(cmd, args,
\* { shell: false }), the locals, setTimeout, the listeners.
Spawned(cmd, cmdArgs) ==
    [called |-> TRUE, cmd |-> cmd, args |-> cmdArgs, shell |-> FALSE,
     child |-> TRUE,
     stdout |-> "", stderr |-> "",
     stdoutTruncated |-> FALSE, stderrTruncated |-> FALSE,
     timedOut |-> FALSE,
     timeout |-> "pending",
     promise |-> Pending,
     killed |-> FALSE, errored |-> FALSE, closed |-> FALSE]

\* spawn throws inside the executor: the promise is rejected with what was
\* thrown; there is no child, no timer and no listener.
SpawnThrew(cmd, cmdArgs) ==
    [Spawned(cmd, cmdArgs) EXCEPT
        !.child = FALSE, !.timeout = "none",
        !.promise = Reject(Pending, SpawnThrown(cmd))]

\* No spawnAsync call was made.
NoRun == [called |-> FALSE]

\* const cleanup = () => clearTimeout(timeout)
Cleanup(run) ==
    IF run.timeout = "pending" THEN [run EXCEPT !.timeout = "cleared"] ELSE run

\* OnStdoutData appending the marker on every data event past the cap.
OnStdoutDataMarksAgain(run, data) ==
    IF Len(run.stdout) < MaxBuffer
    THEN [run EXCEPT !.stdout = @ \o data]
    ELSE [run EXCEPT !.stdout = @ \o TruncationMarker,
                     !.stdoutTruncated = TRUE]

\* child.stdout.on("data", ...)
OnStdoutData(run, data) ==
    IF Len(run.stdout) < MaxBuffer
    THEN [run EXCEPT !.stdout = @ \o data]
    ELSE IF ~run.stdoutTruncated
         THEN [run EXCEPT !.stdout = @ \o TruncationMarker,
                          !.stdoutTruncated = TRUE]
         ELSE run

\* child.stderr.on("data", ...)
OnStderrData(run, data) ==
    IF Len(run.stderr) < MaxBuffer
    THEN [run EXCEPT !.stderr = @ \o data]
    ELSE IF ~run.stderrTruncated
         THEN [run EXCEPT !.stderr = @ \o TruncationMarker,
                          !.stderrTruncated = TRUE]
         ELSE run

\* OnTimeout killing the child without rejecting.
OnTimeoutKillOnly(run) ==
    [run EXCEPT !.timedOut = TRUE, !.killed = TRUE, !.timeout = "fired"]

\* The setTimeout callback: timedOut = true; child.kill(); reject(...)
OnTimeout(run) ==
    [run EXCEPT !.timedOut = TRUE,
                !.killed = TRUE,
                !.timeout = "fired",
                !.promise = Reject(@, TimedOutError)]

\* The tail of the 'error' listener, after cleanup().
ErrorSettles(run, error) ==
    IF ~run.timedOut THEN [run EXCEPT !.promise = Reject(@, error)] ELSE run

\* child.on("error", ...)
OnError(run, error) == ErrorSettles(Cleanup(run), error)

\* CloseSettles resolving whatever the exit code.
CloseSettlesAnyCode(run, e) ==
    IF ~run.timedOut
    THEN [run EXCEPT !.promise =
             Resolve(@, [stdout |-> run.stdout, stderr |-> run.stderr])]
    ELSE run

\* The tail of the 'close' listener, after cleanup().
CloseSettles(run, e) ==
    IF ~run.timedOut
    THEN IF IsCodeZero(e)
         THEN [run EXCEPT !.promise =
                  Resolve(@, [stdout |-> run.stdout, stderr |-> run.stderr])]
         ELSE [run EXCEPT !.promise = Reject(@, ExitError(e, run.stderr))]
    ELSE run

\* child.on("close", ...)
OnClose(run, e) == CloseSettles(Cleanup(run), e)

(***************************************************************************)
(* The CallToolRequestSchema handler (index.ts 197-240).  From its entry   *)
(* to the await of spawnAsync nothing yields, so that part is one step;    *)
(* the rest runs when the promise has settled.  calls holds the tool calls *)
(* in progress and the ones just answered; here the client sends its next  *)
(* request when it has the answer to the previous one, and the answered    *)
(* call's objects are dropped then.                                        *)
(***************************************************************************)

Request(name, command) ==
    [params |-> [name |-> name, arguments |-> [command |-> command]]]

\* A request without arguments.
RequestBare(name) == [params |-> [name |-> name]]

ToolCommands ==
    { "", "  ", "ls 'a", "ls \"a b\" -rf", "rm -rf /", "npm publish",
      "npm install my-package" }

Requests ==
    {Request("run_safe_command", c) : c \in ToolCommands}
        \cup {RequestBare("run_safe_command"), Request("list_files", "ls")}

\* String(request.params.arguments?.command || "")
CommandStr(request) ==
    IF /\ "arguments" \in DOMAIN request.params
       /\ "command" \in DOMAIN request.params.arguments
       /\ request.params.arguments.command # ""
    THEN request.params.arguments.command
    ELSE ""

\* What the handler returns, or what it throws.
Content(text) == [content |-> <<[type |-> "text", text |-> text]>>]
ContentError(text) ==
    [content |-> <<[type |-> "text", text |-> text]>>, isError |-> TRUE]
Thrown(message) == [threw |-> message]
NoResponse == [pending |-> TRUE]

\* A call the handler answered without spawnAsync, and one that awaits it.
Answered(request, response) ==
    [request |-> request, run |-> NoRun, response |-> response]
Awaiting(request, run) ==
    [request |-> request, run |-> run, response |-> NoResponse]

\* The calls still awaiting spawnAsync.
Unanswered == SelectSeq(calls, LAMBDA call : call.response = [pending |-> TRUE])

\* The handler left before validateCommand.
NoValidation(call) ==
    /\ calls' = Append(Unanswered, call)
    /\ UNCHANGED <<allowedCommands, valCall, valResult>>

\* new Promise(executor) in spawnAsync: what the operating system does
\* with the spawn call is os.
SpawnAsync(cmd, cmdArgs, os) ==
    IF os = "throws" THEN SpawnThrew(cmd, cmdArgs) ELSE Spawned(cmd, cmdArgs)

\* AfterValidation calling spawnAsync whatever validateCommand returned.
AfterValidationIgnored(request, cmd, cmdArgs, v, os) ==
    /\ calls' = Append(Unanswered, Awaiting(request, SpawnAsync(cmd, cmdArgs, os)))
    /\ allowedCommands' = v.rules
    /\ valCall' = Call(cmd, cmdArgs)
    /\ valResult' = v.result

\* index.ts 213-224: validateCommand returned v.
AfterValidation(request, cmd, cmdArgs, v, os) ==
    /\ calls' = Append(Unanswered,
            IF v.result # Null
            THEN Answered(request,
                    ContentError("Error: Command validation failed. " \o v.result))
            ELSE Awaiting(request, SpawnAsync(cmd, cmdArgs, os)))
    /\ allowedCommands' = v.rules
    /\ valCall' = Call(cmd, cmdArgs)
    /\ valResult' = v.result

\* index.ts 203-211 and the catch of 232-239: parseArgs returned or threw.
AfterParse(request, parsed, os) ==
    IF parsed.threw
    THEN NoValidation(Answered(request,
            ContentError("Execution failed:\n" \o parsed.message)))
    ELSE IF Len(parsed.args) = 0
    THEN NoValidation(Answered(request, ContentError("Error: Command is empty.")))
    ELSE AfterValidation(request, Head(parsed.args), Tail(parsed.args),
            ValidateCommand(allowedCommands, Head(parsed.args), Tail(parsed.args)),
            os)

\* The handler from its entry to its first return, throw or await.
Handle(request, os) ==
    IF request.params.name # "run_safe_command"
    THEN NoValidation(Answered(request,
            Thrown("Unknown tool: " \o request.params.name)))
    ELSE AfterParse(request, ParseArgs(CommandStr(request)), os)

\* A tool call from a client that has the answers to its earlier ones.
CallTool(request, os) ==
    /\ Unanswered = <<>>
    /\ Handle(request, os)
    /\ UNCHANGED tokVars

\* A callback of invocation c ran and left the invocation as run.
RunBecomes(c, run) ==
    /\ calls' = [calls EXCEPT ![c].run = run]
    /\ UNCHANGED <<allowedCommands, valCall, valResult>>
    /\ UNCHANGED tokVars

HasChild(c) == calls[c].run.called /\ calls[c].run.child

\* The child wrote data to its stdout.
StdoutData(c, data) ==
    /\ HasChild(c)
    /\ ~calls[c].run.closed
    /\ RunBecomes(c, OnStdoutData(calls[c].run, data))

\* The child wrote data to its stderr.
StderrData(c, data) ==
    /\ HasChild(c)
    /\ ~calls[c].run.closed
    /\ RunBecomes(c, OnStderrData(calls[c].run, data))

\* timeoutMs have passed and the timer was not cleared.
TimerFires(c) ==
    /\ calls[c].run.called
    /\ calls[c].run.timeout = "pending"
    /\ RunBecomes(c, OnTimeout(calls[c].run))

\* The child emits 'error'.
ChildError(c) ==
    /\ HasChild(c)
    /\ ~calls[c].run.errored
    /\ RunBecomes(c, [OnError(calls[c].run, SpawnError(calls[c].run.cmd))
                        EXCEPT !.errored = TRUE])

\* The child emits 'close': it has ended and its streams are closed.
ChildClose(c, e) ==
    /\ HasChild(c)
    /\ ~calls[c].run.closed
    /\ RunBecomes(c, [OnClose(calls[c].run, e) EXCEPT !.closed = TRUE])

\* index.ts 226-239: what the handler returns once the promise settled.
ResponseOf(promise) ==
    IF promise.state = "fulfilled"
    THEN Content("Stdout:\n" \o promise.value.stdout
                    \o "\n\nStderr:\n" \o promise.value.stderr)
    ELSE ContentError("Execution failed:\n" \o promise.reason.message)

\* The await of spawnAsync resumes.
Resume(c) ==
    /\ calls[c].run.called
    /\ calls[c].response = NoResponse
    /\ calls[c].run.promise.state # "pending"
    /\ calls' = [calls EXCEPT ![c].response = ResponseOf(calls[c].run.promise)]
    /\ UNCHANGED <<allowedCommands, valCall, valResult>>
    /\ UNCHANGED tokVars

CallIds == 1..Len(calls)

Init ==
    /\ allowedCommands \in RuleSets
    /\ valCall = NoCall
    /\ valResult = Null
    /\ calls = <<>>
    /\ IdleParse

Next ==
    \/ \E request \in Requests, os \in {"starts", "throws"} : CallTool(request, os)
    \/ \E c \in CallIds, data \in Chunks : StdoutData(c, data)
    \/ \E c \in CallIds, data \in Chunks : StderrData(c, data)
    \/ \E c \in CallIds : TimerFires(c)
    \/ \E c \in CallIds : ChildError(c)
    \/ \E c \in CallIds, e \in CloseEvents : ChildClose(c, e)
    \/ \E c \in CallIds : Resume(c)

Spec == Init /\ [][Next]_vars

\* The event loop runs a timer that is due and was not cleared: of all the
\* events of an invocation only the timer is certain to come.
FairSpec == Init /\ [][Next]_vars /\ WF_vars(\E c \in CallIds : TimerFires(c))

(***************************************************************************)
(* C1.  A process is spawned for (program, args) only after parseArgs      *)
(* returned at least one token and validateCommand returned null for       *)
(* exactly that program and those arguments; the spawned argv is the       *)
(* token sequence after the first token, unchanged and in order, with      *)
(* shell: false.  When parseArgs throws, returns no token, or              *)
(* validateCommand returns a message, the call never has a process.        *)
(***************************************************************************)
Tokens(call) == ParseArgs(CommandStr(call.request))

SpawnedAsValidated(call, parsed) ==
    /\ call.request.params.name = "run_safe_command"
    /\ ~parsed.threw
    /\ Len(parsed.args) >= 1
    /\ valCall = Call(parsed.args[1], Tail(parsed.args))
    /\ valResult = Null
    /\ call.run.cmd = parsed.args[1]
    /\ call.run.args = Tail(parsed.args)
    /\ call.run.args = SubSeq(parsed.args, 2, Len(parsed.args))
    /\ call.run.shell = FALSE

NothingToSpawn(call, parsed) ==
    \/ call.request.params.name # "run_safe_command"
    \/ parsed.threw
    \/ parsed.args = <<>>
    \/ /\ valCall = Call(parsed.args[1], Tail(parsed.args))
       /\ valResult # Null

C1_SpawnOnlyAfterAccept ==
    \A c \in CallIds :
        /\ calls[c].run.called => SpawnedAsValidated(calls[c], Tokens(calls[c]))
        /\ NothingToSpawn(calls[c], Tokens(calls[c])) => ~calls[c].run.called

\* A quoted argument with a space went to the child as one argv element,
\* and the child ran to its end.
C1_Witness ==
    \E c \in CallIds :
        /\ calls[c].run.called
        /\ calls[c].run.cmd = "ls"
        /\ calls[c].run.args = <<"a b", "-rf">>
        /\ calls[c].run.closed

(***************************************************************************)
(* C10.  Whatever the order of stdout data, stderr data, the timer, the    *)
(* child's 'error' and the child's 'close', one spawnAsync invocation      *)
(* reports exactly one outcome: a pending promise is eventually settled    *)
(* as success, timed out, spawn error or non-zero exit, and once it is     *)
(* settled no event of the invocation settles it again or changes what it  *)
(* was settled with.                                                       *)
(***************************************************************************)
IsSettled(run) == run.called /\ run.promise.state # "pending"

IsSuccess(run) == run.called /\ run.promise.state = "fulfilled"

IsTimeout(run) ==
    /\ run.called
    /\ run.promise.state = "rejected"
    /\ run.promise.reason = TimedOutError

IsSpawnError(run) ==
    /\ run.called
    /\ run.promise.state = "rejected"
    /\ run.promise.reason \in {SpawnError(run.cmd), SpawnThrown(run.cmd)}

IsNonZeroExit(run) ==
    /\ run.called
    /\ run.promise.state = "rejected"
    /\ \E e \in CloseEvents :
        /\ ~IsCodeZero(e)
        /\ run.promise.reason = ExitError(e, run.stderr)

OneOutcome(run) ==
    Cardinality({k \in {"success", "timeout", "spawn", "exit"} :
        \/ k = "success" /\ IsSuccess(run)
        \/ k = "timeout" /\ IsTimeout(run)
        \/ k = "spawn" /\ IsSpawnError(run)
        \/ k = "exit" /\ IsNonZeroExit(run)}) = 1

\* A step of invocation c: one of its callbacks, or the handler resuming.
EventOf(c) ==
    \/ \E data \in Chunks : StdoutData(c, data) \/ StderrData(c, data)
    \/ TimerFires(c)
    \/ ChildError(c)
    \/ \E e \in CloseEvents : ChildClose(c, e)
    \/ Resume(c)

C10_ExactlyOneOutcome ==
    /\ [][\A c \in CallIds :
            (IsSettled(calls[c].run) /\ EventOf(c))
                => calls'[c].run.promise = calls[c].run.promise]_vars
    /\ [](\A c \in CallIds : IsSettled(calls[c].run) => OneOutcome(calls[c].run))
    /\ (\E c \in CallIds : calls[c].run.called /\ ~IsSettled(calls[c].run))
          ~> (\E c \in CallIds : IsSettled(calls[c].run))

\* The child emitted 'error' and then 'close' with a non-zero code: the
\* promise still carries the spawn error.
C10_Witness ==
    \E c \in CallIds :
        /\ calls[c].run.called
        /\ calls[c].run.errored
        /\ calls[c].run.closed
        /\ ~calls[c].run.timedOut
        /\ calls[c].run.promise = [state |-> "rejected", reason |-> SpawnError("npm")]

(***************************************************************************)
(* C11.  When the timer fires before 'close' has been handled, the child   *)
(* is sent a kill and the invocation fails with the timed-out error; a     *)
(* 'close' (whatever its code) or an 'error' handled afterwards neither    *)
(* resolves the call nor changes the outcome, and the handler never        *)
(* answers with the captured stdout once the timer has fired.              *)
(***************************************************************************)
TimedOutAnswer ==
    ContentError("Execution failed:\nCommand timed out after 600000ms")

C11_TimeoutWins ==
    \A c \in CallIds :
        (calls[c].run.called /\ calls[c].run.timedOut) =>
            /\ calls[c].run.killed
            /\ calls[c].run.promise =
                  [state |-> "rejected",
                   reason |-> [message |-> "Command timed out after 600000ms"]]
            /\ calls[c].response \in {NoResponse, TimedOutAnswer}

\* The timer fired with output captured; 'close' and 'error' came after it
\* and the handler has answered.
C11_Witness ==
    \E c \in CallIds :
        /\ calls[c].run.called
        /\ calls[c].run.timedOut
        /\ calls[c].run.closed
        /\ calls[c].run.errored
        /\ calls[c].run.stdout # ""
        /\ calls[c].response = TimedOutAnswer

(***************************************************************************)
(* C12.  spawnAsync reports success only when 'close' carried exit code 0  *)
(* and the timer had not fired, with the stdout and stderr accumulated at  *)
(* that point; when 'close' carries another code (non-zero, or null after  *)
(* a signal) and the timer had not fired, the call fails with an error     *)
(* carrying that code and the accumulated stderr.                          *)
(***************************************************************************)
Fulfilled(run) == run.called /\ run.promise.state = "fulfilled"

ExitMessage(e, stderr) ==
    IF e = ExitedWith(1)
    THEN "Command exited with code 1\nStderr: " \o stderr
    ELSE "Command exited with code null\nStderr: " \o stderr

\* Success comes from 'close' with code 0 before the timer, and carries the
\* text accumulated so far.
SuccessOnlyOnCleanExit ==
    \A c \in CallIds :
        (Fulfilled(calls'[c].run) /\ ~Fulfilled(calls[c].run)) =>
            /\ ChildClose(c, ExitedWith(0))
            /\ ~calls[c].run.timedOut
            /\ calls'[c].run.promise.value =
                  [stdout |-> calls[c].run.stdout, stderr |-> calls[c].run.stderr]

\* As stated: any 'close' with another code before the timer fails the call
\* with the exit error.
C12_OtherCodeAlwaysExitError ==
    [][/\ SuccessOnlyOnCleanExit
       /\ \A c \in CallIds : \A e \in CloseEvents \ {ExitedWith(0)} :
            (ChildClose(c, e) /\ ~calls[c].run.timedOut) =>
                calls'[c].run.promise =
                    [state |-> "rejected",
                     reason |-> [message |-> ExitMessage(e, calls[c].run.stderr)]]]_vars

\* Amended: the exit error is the outcome when nothing was reported before
\* the 'close'; after an 'error' the call has already failed and 'close'
\* changes nothing.
C12_CloseDecidesWhenPending ==
    [][/\ SuccessOnlyOnCleanExit
       /\ \A c \in CallIds : \A e \in CloseEvents :
            (ChildClose(c, e) /\ ~calls[c].run.timedOut) =>
                IF calls[c].run.promise.state # "pending"
                THEN calls'[c].run.promise = calls[c].run.promise
                ELSE IF e = ExitedWith(0)
                THEN calls'[c].run.promise =
                        [state |-> "fulfilled",
                         value |-> [stdout |-> calls[c].run.stdout,
                                    stderr |-> calls[c].run.stderr]]
                ELSE calls'[c].run.promise =
                        [state |-> "rejected",
                         reason |-> [message |-> ExitMessage(e, calls[c].run.stderr)]]]_vars

\* The child wrote to both streams and was ended by a signal before the
\* timer: the call failed with code null and the stderr text.
C12_Witness ==
    \E c \in CallIds :
        /\ calls[c].run.called
        /\ calls[c].run.closed
        /\ ~calls[c].run.timedOut
        /\ calls[c].run.stdout = "a"
        /\ calls[c].run.promise =
              [state |-> "rejected",
               reason |-> [message |-> "Command exited with code null\nStderr: bb"]]

(***************************************************************************)
(* C13.  Each captured stream is capped: in every reachable state the      *)
(* text accumulated for stdout, and likewise for stderr, not counting the  *)
(* truncation marker, is at most maxBuffer long, whatever the number and   *)
(* sizes of the data chunks.                                               *)
(***************************************************************************)
CapturedLen(text, truncated) ==
    IF truncated THEN Len(text) - Len(TruncationMarker) ELSE Len(text)

C13_StreamCapped ==
    \A c \in CallIds :
        calls[c].run.called =>
            /\ CapturedLen(calls[c].run.stdout, calls[c].run.stdoutTruncated) <= MaxBuffer
            /\ CapturedLen(calls[c].run.stderr, calls[c].run.stderrTruncated) <= MaxBuffer

(***************************************************************************)
(* C14.  Whenever a child writes more than maxBuffer on a stream, the text *)
(* reported for that stream ends with the truncation marker, however the   *)
(* output is split into chunks, the chunk that crosses the cap being the   *)
(* last one delivered included.  A reported text longer than maxBuffer is  *)
(* the output of such a child.                                             *)
(***************************************************************************)
EndsWith(text, suffix) ==
    /\ Len(text) >= Len(suffix)
    /\ SubSeq(text, Len(text) - Len(suffix) + 1, Len(text)) = suffix

MarkedIfOver(text) == Len(text) > MaxBuffer => EndsWith(text, TruncationMarker)

C14_MarkerWhenOverCap ==
    \A c \in CallIds :
        Fulfilled(calls[c].run) =>
            /\ MarkedIfOver(calls[c].run.promise.value.stdout)
            /\ MarkedIfOver(calls[c].run.promise.value.stderr)

(***************************************************************************)
(* C15.  Truncation is one-way, one-time and per stream: the marker is     *)
(* appended to a stream at most once, after that no data event changes     *)
(* that stream's text, its truncated flag never returns to false, and      *)
(* truncating one stream leaves the other's text and flag unchanged.       *)
(***************************************************************************)
RECURSIVE Occurrences(_, _, _)
Occurrences(text, part, k) ==
    IF k + Len(part) - 1 > Len(text) THEN 0
    ELSE (IF SubSeq(text, k, k + Len(part) - 1) = part THEN 1 ELSE 0)
            + Occurrences(text, part, k + 1)

MarkedOnce(text, truncated) ==
    Occurrences(text, TruncationMarker, 1) = (IF truncated THEN 1 ELSE 0)

\* One stream over a step of its invocation: text, flag before and after,
\* and the other stream's.
TruncationOneWay(text, flag, text2, flag2, other, otherFlag, other2, otherFlag2) ==
    /\ flag => (flag2 /\ text2 = text)
    /\ (flag2 /\ ~flag) =>
        /\ text2 = text \o TruncationMarker
        /\ other2 = other
        /\ otherFlag2 = otherFlag

C15_TruncationOneWay ==
    /\ [](\A c \in CallIds : calls[c].run.called =>
            /\ MarkedOnce(calls[c].run.stdout, calls[c].run.stdoutTruncated)
            /\ MarkedOnce(calls[c].run.stderr, calls[c].run.stderrTruncated))
    /\ [][\A c \in CallIds : EventOf(c) =>
            /\ TruncationOneWay(
                 calls[c].run.stdout, calls[c].run.stdoutTruncated,
                 calls'[c].run.stdout, calls'[c].run.stdoutTruncated,
                 calls[c].run.stderr, calls[c].run.stderrTruncated,
                 calls'[c].run.stderr, calls'[c].run.stderrTruncated)
            /\ TruncationOneWay(
                 calls[c].run.stderr, calls[c].run.stderrTruncated,
                 calls'[c].run.stderr, calls'[c].run.stderrTruncated,
                 calls[c].run.stdout, calls[c].run.stdoutTruncated,
                 calls'[c].run.stdout, calls'[c].run.stdoutTruncated)]_vars

\* stdout was truncated while stderr, written to as well, was not.
C15_Witness ==
    \E c \in CallIds :
        /\ calls[c].run.called
        /\ calls[c].run.stdoutTruncated
        /\ calls[c].run.stdout = "bb" \o TruncationMarker
        /\ ~calls[c].run.stderrTruncated
        /\ calls[c].run.stderr = "a"
        /\ calls[c].run.closed

(***************************************************************************)
(* C16.  When the child cannot be started (it emits 'error'), spawnAsync   *)
(* fails with that error, not with the timed-out error nor with the        *)
(* 'exited with code' error, whatever the order in which 'error' and       *)
(* 'close' are delivered.                                                  *)
(***************************************************************************)
SpawnErrorOutcome(run) ==
    [state |-> "rejected", reason |-> [message |-> "spawn " \o run.cmd \o " ENOENT"]]

MaxConcurrent == 2

ConcurrentRequests ==
    {Request("run_safe_command", c) : c \in {"npm publish", "npm install my-package"}}

CallToolConcurrent(request, os) ==
    /\ Len(Unanswered) < MaxConcurrent
    /\ Handle(request, os)
    /\ UNCHANGED tokVars

InitConcurrent ==
    /\ allowedCommands \in {DEFAULT_ALLOWED_COMMANDS, ReadConfigFile(ConfigGlobal)}
    /\ valCall = NoCall
    /\ valResult = Null
    /\ calls = <<>>
    /\ IdleParse

NextConcurrent ==
    \/ \E request \in ConcurrentRequests : CallToolConcurrent(request, "starts")
    \/ \E c \in CallIds : StdoutData(c, "bb")
    \/ \E c \in CallIds : StderrData(c, "bb")
    \/ \E c \in CallIds : TimerFires(c)
    \/ \E c \in CallIds : ChildError(c)
    \/ \E c \in CallIds, e \in {ExitedWith(0), ExitedWith(1)} : ChildClose(c, e)
    \/ \E c \in CallIds : Resume(c)

SpecConcurrent == InitConcurrent /\ [][NextConcurrent]_vars

(***************************************************************************)
(* C17.  Concurrent invocations are independent: when the steps of two     *)
(* tool calls interleave, the outcome and the captured stdout and stderr   *)
(* of each call are what they would be had it run alone, and no buffer,    *)
(* flag or timer is shared.                                                *)
(***************************************************************************)
\* The rule set as loadConfig built it: every RegExp at lastIndex 0.
ResetMatcher(m) == IF m.type = "regexp" THEN [m EXCEPT !.lastIndex = 0] ELSE m
ResetList(list) == [k \in 1..Len(list) |-> ResetMatcher(list[k])]
ResetRule(rule) ==
    [f \in DOMAIN rule |-> IF f = "command" THEN rule[f] ELSE ResetList(rule[f])]
AsLoaded(rules) == [k \in 1..Len(rules) |-> ResetRule(rules[k])]

\* What validateCommand returns for the call's tokens when the call is the
\* server's only one.
AloneResult(tokens) ==
    ValidateCommand(AsLoaded(allowedCommands), Head(tokens), Tail(tokens)).result

\* A call that arrived while another was awaiting its child has the
\* validation outcome it has alone.
ValidatedAsAlone ==
    \A c \in CallIds \ {1} :
        calls[c].run.called = (AloneResult(Tokens(calls[c]).args) = Null)

\* A callback of one invocation leaves every other invocation as it was.
OthersUntouched ==
    \A c \in CallIds : EventOf(c) =>
        \A d \in CallIds \ {c} : calls'[d] = calls[d]

C17_CallsIndependent ==
    /\ []ValidatedAsAlone
    /\ [][OthersUntouched]_vars

(***************************************************************************)
(* C18.  A pattern matcher matches an argument only when the pattern       *)
(* matches the whole argument, never merely a prefix or an inner           *)
(* substring: validateCommand counts an argument as denied, or as          *)
(* allowed, by a pattern only on a whole match.                            *)
(***************************************************************************)
\* The elements of the pattern, anchors aside, match all of text.
MatchesAllOf(source, text) ==
    MatchItems([RegExpProgram(source) EXCEPT !.bol = FALSE, !.eol = TRUE],
               text, 1, 0) = Len(text)

WholeMatch(m, arg) ==
    \/ m.type = "string" /\ m.value = arg
    \/ m.type = "regexp" /\ MatchesAllOf(m.source, arg)

\* The pattern matches a stretch of arg: one that starts at the beginning
\* of arg if the pattern begins with ^, and ends at its end if the pattern
\* ends with $.
Occurs(m, arg) ==
    \/ m.type = "string" /\ m.value = arg
    \/ /\ m.type = "regexp"
       /\ \E from \in 0..Len(arg) : \E to \in from..Len(arg) :
            /\ RegExpProgram(m.source).bol => from = 0
            /\ RegExpProgram(m.source).eol => to = Len(arg)
            /\ MatchesAllOf(m.source, Substring(arg, from, to))

OccursStateless(m, arg) == Occurs(m, arg) /\ (m.type = "regexp" => ~Stateful(m))

\* The verdicts of the call just made rest on matches of the kind M, and
\* an argument that a matcher without g and y matches in the way N is not
\* found unmatched.
VerdictsRestOn(M(_, _), N(_, _)) ==
    valCall.made =>
        /\ (valResult = Null /\ HasAllowed) =>
              \A j \in 1..Len(CallArgs) : SomeOf(TheRule.allowedArgs, CallArgs[j], M)
        /\ \A j \in 1..Len(CallArgs) :
              (valResult = Denied(CallArgs[j], CallCmd) /\ ~RejectedBefore(j))
                  => SomeOf(TheRule.deniedArgs, CallArgs[j], M)
        /\ \A j \in 1..Len(CallArgs) :
              (valResult = NotAllowed(CallArgs[j], CallCmd) /\ ~RejectedBefore(j))
                  => ~SomeOf(TheRule.allowedArgs, CallArgs[j], N)

\* As stated: only whole matches count.
C18_OnlyWholeMatchCounts == VerdictsRestOn(WholeMatch, OccursStateless)

\* Amended: a match anywhere in the argument counts, the pattern's own
\* anchors deciding where it may begin and end.
PrefixExamples ==
    /\ ValidateDefault("npm", <<"--save=x">>) = Null
    /\ ValidateDefault("npm", <<"x=--save">>) = NotAllowed("x=--save", "npm")

C18_MatchAnywhereCounts ==
    /\ VerdictsRestOn(Occurs, OccursStateless)
    /\ PrefixExamples

\* 'republish' was accepted for npm because the allowed pattern /publish/
\* matches inside it.
C18_Witness ==
    /\ allowedCommands = ReadConfigFile(ConfigMixed)
    /\ valCall = Call("npm", <<"republish">>)
    /\ valResult = Null
    /\ ~SomeOf(TheRule.allowedArgs, "republish", WholeMatch)
    /\ SomeOf(TheRule.allowedArgs, "republish", Occurs)

(***************************************************************************)
(* C19.  Arguments are checked in order and validation stops at the first  *)
(* failure: a rejection names the argument of lowest index that matches a  *)
(* denied matcher or, with allowed matchers present, matches no allowed    *)
(* matcher; its kind is decided by that argument alone, deny first.        *)
(***************************************************************************)
\* The matcher, as loaded from the rule set, matches the argument.
MatchesAsLoaded(m, arg) == TestMatcher(ResetMatcher(m), arg).matched

DeniedAsLoaded(j) == HasDenied /\ SomeOf(TheRule.deniedArgs, CallArgs[j], MatchesAsLoaded)

Fails(j) ==
    \/ DeniedAsLoaded(j)
    \/ HasAllowed /\ ~SomeOf(TheRule.allowedArgs, CallArgs[j], MatchesAsLoaded)

FirstFailure == CHOOSE j \in 1..Len(CallArgs) : Fails(j) /\ \A k \in 1..(j - 1) : ~Fails(k)

ReasonFor(j) ==
    IF DeniedAsLoaded(j) THEN Denied(CallArgs[j], CallCmd)
    ELSE NotAllowed(CallArgs[j], CallCmd)

C19_FirstFailureNamed ==
    (HasRule /\ (HasAllowed \/ HasDenied)) =>
        IF \E j \in 1..Len(CallArgs) : Fails(j)
        THEN valResult = ReasonFor(FirstFailure)
        ELSE valResult = Null

(***************************************************************************)
(* C20.  Resources are released on every exit path of spawnAsync: once an  *)
(* outcome has been reported the timer is no longer pending, and no stdout *)
(* or stderr data event arriving afterwards changes any state of that      *)
(* invocation, on the timeout path too.                                    *)
(***************************************************************************)
TimerReleased ==
    \A c \in CallIds : IsSettled(calls[c].run) => calls[c].run.timeout # "pending"

DataEvent(c) == \E data \in Chunks : StdoutData(c, data) \/ StderrData(c, data)

C20_ReleasedAfterOutcome ==
    /\ []TimerReleased
    /\ [][\A c \in CallIds :
            (IsSettled(calls[c].run) /\ DataEvent(c))
                => calls'[c].run = calls[c].run]_vars

(***************************************************************************)
(* C21.  A dangling backslash at the end of the input is a no-op: when the *)
(* scan of s ends with no escape pending, parseArgs of s followed by one   *)
(* backslash has the result of parseArgs(s), the same tokens or the same   *)
(* unclosed-quote failure.                                                 *)
(***************************************************************************)
\* commandStr is some s followed by one backslash that nothing escapes.
EndsWithDanglingBackslash ==
    /\ Len(commandStr) > 0
    /\ CharAt(commandStr, Len(commandStr) - 1) = Backslash
    /\ ~Escaped(commandStr, Len(commandStr) - 1)

WithoutLastChar == Substring(commandStr, 0, Len(commandStr) - 1)

DanglingExamples ==
    /\ ParseArgs("ls -la\\") = Returned(<<"ls", "-la">>)
    /\ ParseArgs("ls \\") = Returned(<<"ls">>)
    /\ ParseArgs("\\") = Returned(<<>>)
    /\ ParseArgs("echo 'hello\\") = ParseArgs("echo 'hello")
    /\ ParseArgs("echo 'hello\\").threw

C21_DanglingBackslashNoOp ==
    /\ (parsePc # "loop" /\ EndsWithDanglingBackslash) =>
          parseOut = ParseArgs(WithoutLastChar)
    /\ DanglingExamples

C21_Witness ==
    /\ parsePc = "returned"
    /\ commandStr = "a b\\"
    /\ parseOut.args = <<"a", "b">>

(***************************************************************************)
(* C22.  parseArgs never emits an empty token: every token has at least    *)
(* one character, tokens are appended in the order the scan meets them,    *)
(* empty and whitespace-only input give the empty sequence, and an empty   *)
(* quoted string standing alone as a word gives no token.                  *)
(***************************************************************************)
NoEmptyToken(toks) == \A k \in 1..Len(toks) : toks[k] # ""

OnlyWhitespace(s) == \A k \in 0..(Len(s) - 1) : CharAt(s, k) \in Whitespace

EmptyWordExamples ==
    /\ ParseArgs("") = Returned(<<>>)
    /\ ParseArgs(" \t\n\r ") = Returned(<<>>)
    /\ ParseArgs("''") = Returned(<<>>)
    /\ ParseArgs("\"\"") = Returned(<<>>)
    /\ ParseArgs("grep '' file") = Returned(<<"grep", "file">>)
    /\ ParseArgs("git commit -m \"\"") = Returned(<<"git", "commit", "-m">>)
    /\ ParseArgs("''a") = Returned(<<"a">>)

C22_NoEmptyToken ==
    /\ [](/\ NoEmptyToken(args)
          /\ parsePc = "returned" =>
                /\ parseOut.args = args
                /\ OnlyWhitespace(commandStr) => parseOut.args = <<>>
          /\ EmptyWordExamples)
    /\ [][parsePc = "loop" =>
            \/ args' = args
            \/ current # "" /\ args' = Append(args, current)]_vars

C22_Witness ==
    /\ parsePc = "returned"
    /\ commandStr = "a ''"
    /\ parseOut.args = <<"a">>

(***************************************************************************)
(* C23.  A whitelisted program invoked with no arguments is always         *)
(* accepted: whatever the allowed and denied matchers of the program's     *)
(* rule, validateCommand(program, []) returns null; an allowed list that   *)
(* is present but empty rejects every other argument list.                 *)
(***************************************************************************)
NoArgumentExamples ==
    /\ ValidateDefault("npm", <<>>) = Null
    /\ ValidateDefault("git", <<>>) = Null
    /\ ValidateCommand(ReadConfigFile(ConfigMixed), "tool", <<>>).result = Null
    /\ ValidateCommand(ReadConfigFile(ConfigMixed), "tool", <<"install">>).result
          = NotAllowed("install", "tool")
    /\ ValidateCommand(ReadConfigFile(ConfigGlobal), "git", <<>>).result = Null

C23_NoArgumentsAccepted ==
    /\ (HasRule /\ CallArgs = <<>>) => valResult = Null
    /\ (HasAllowed /\ TheRule.allowedArgs = <<>> /\ CallArgs # <<>>) =>
          valResult \in {Denied(CallArgs[1], CallCmd), NotAllowed(CallArgs[1], CallCmd)}
    /\ NoArgumentExamples

C23_Witness ==
    /\ valCall = Call("tool", <<>>)
    /\ HasAllowed
    /\ TheRule.allowedArgs = <<>>
    /\ valResult = Null

====
